---- MODULE Spec2Model ----
(***************************************************************************)
(* Todo REST service (Building_a_Todo_RESTful_API_in_Go/main.go).          *)
(*                                                                         *)
(* The state is the SQLite table `todos` and its AUTOINCREMENT sequence.    *)
(* Every net/http handler runs on its own goroutine;                       *)
(* a handler's SQL statements are the atomic steps.  All handlers issue    *)
(* one statement, except POST /todos whose Create issues an INSERT and     *)
(* then a SELECT: it is modelled as two steps.  Any statement may fail in  *)
(* the engine (StorageError).                                              *)
(*                                                                         *)
(* `last` records the exchange of the handler step taken last (request,    *)
(* response, store calls, and the row count n0 the handler started from)   *)
(* until Flush drops it; `issued` is the history of generated ids.  Spec   *)
(* runs the handlers of Workers concurrently, SeqSpec serves one client.   *)
(***************************************************************************)
EXTENDS Integers, Sequences, FiniteSets, TLC

VARIABLES
    table,   \* rows of `todos`: id -> [title, completed, created_at]
    seq,     \* sqlite_sequence: the largest rowid ever given to a row
    issued,  \* history: ids returned by LastInsertId, in insertion order
    pc,      \* per handler goroutine: "idle", "reread" (inside Create), "off"
    loc,     \* per handler goroutine: locals of a POST between INSERT and SELECT
    last     \* the HTTP exchange whose response is being written, if any

vars == <<table, seq, issued, pc, loc, last>>

\* ---------------------------------------------------------------- bounds
MaxId == 2          \* rows ever inserted

Workers == {"h1", "h2"}   \* handler goroutines that may run at once
Timestamps == {1, 2}      \* values CURRENT_TIMESTAMP takes when a row is inserted

\* ------------------------------------------------------------ HTTP codes
StatusOK == 200
StatusBadRequest == 400
StatusMethodNotAllowed == 405
StatusInternalServerError == 500
Aborted == 0        \* the handler panicked: net/http drops the connection

Methods == {"GET", "POST", "PUT", "DELETE", "PATCH"}

\* ------------------------------------------------------------------ Todo
ZeroTime == 0       \* Go's zero time.Time
ZeroTodo == [id |-> 0, title |-> "", completed |-> FALSE, created_at |-> ZeroTime]

ToTodo(id, r) ==
    [id |-> id, title |-> r.title, completed |-> r.completed,
     created_at |-> r.created_at]

\* ------------------------------------------------------- strconv.Atoi
DigitChars == <<"0", "1", "2", "3", "4", "5", "6", "7", "8", "9">>
IsDigit(c) == \E d \in 1..10 : DigitChars[d] = c
DigitOf(c) == (CHOOSE d \in 1..10 : DigitChars[d] = c) - 1

RECURSIVE ParseDigits(_, _)
\* the digit loop of Atoi: n = n*10 + (ch - '0'), a syntax error on any other byte
ParseDigits(s, n) ==
    IF s = <<>> THEN [err |-> FALSE, n |-> n]
    ELSE IF ~IsDigit(Head(s)) THEN [err |-> TRUE, n |-> 0]
    ELSE ParseDigits(Tail(s), n * 10 + DigitOf(Head(s)))

Atoi(s) ==
    IF s = <<>> THEN [err |-> TRUE, n |-> 0]
    ELSE LET signed == Head(s) \in {"+", "-"}
             digits == IF signed THEN Tail(s) ELSE s
             r == ParseDigits(digits, 0)
         IN  IF digits = <<>> \/ r.err THEN [err |-> TRUE, n |-> 0]
             ELSE [err |-> FALSE, n |-> IF Head(s) = "-" THEN 0 - r.n ELSE r.n]

\* path suffixes after "/todos/" that requests carry
Suffixes ==
    {<<>>, <<"x">>, <<"1", "x">>, <<"+", "1">>, <<"-", "1">>}
        \cup {<<DigitChars[i + 1]>> : i \in 1..MaxId}

\* ------------------------------------------------------ encoding/json
JStr(s) == [t |-> "str", s |-> s, n |-> 0, b |-> FALSE]
JNum(n) == [t |-> "num", s |-> "", n |-> n, b |-> FALSE]
JBool(b) == [t |-> "bool", s |-> "", n |-> 0, b |-> b]
JNull == [t |-> "null", s |-> "", n |-> 0, b |-> FALSE]

\* RFC 3339 strings and the instants they denote
TimeStrings == {"2001-01-01T00:00:09Z"}
ParseTime(s) == IF s = "2001-01-01T00:00:09Z" THEN 9 ELSE ZeroTime

JObject(f) == [kind |-> "object", fields |-> f]

\* an object none of whose keys is a field of Todo (unknown keys are ignored)
NoFields == [other |-> JNull]

\* request bodies
Bodies ==
    { [kind |-> "syntax", fields |-> NoFields],  \* empty or malformed JSON
      [kind |-> "null", fields |-> NoFields],    \* the JSON value null
      [kind |-> "scalar", fields |-> NoFields],  \* a number, string or array
      JObject(NoFields),
      JObject([title |-> JStr("a")]),
      JObject([title |-> JStr("")]),
      JObject([title |-> JNull, completed |-> JBool(FALSE)]),
      JObject([title |-> JNum(7)]),
      JObject([id |-> JNum(9), title |-> JStr("a"), completed |-> JBool(TRUE),
               created_at |-> JStr("2001-01-01T00:00:09Z")]),
      JObject([title |-> JStr("b"), created_at |-> JStr("soon")]) }

Has(f, k) == k \in DOMAIN f

\* one struct field: absent key and JSON null leave the field as it was; a
\* value of the wrong JSON type is an UnmarshalTypeError
FieldErr(f, k, t) == Has(f, k) /\ f[k].t \notin {t, "null"}
FieldSet(f, k, t) == Has(f, k) /\ f[k].t = t

\* json.Decoder.Decode into a Todo struct that holds dst
DecodeTodo(body, dst) ==
    IF body.kind = "syntax" THEN [err |-> TRUE, todo |-> dst]
    ELSE IF body.kind = "null" THEN [err |-> FALSE, todo |-> dst]
    ELSE IF body.kind # "object" THEN [err |-> TRUE, todo |-> dst]
    ELSE LET f == body.fields
             badTime == FieldSet(f, "created_at", "str")
                            /\ f["created_at"].s \notin TimeStrings
         IN  [err |-> FieldErr(f, "id", "num") \/ FieldErr(f, "title", "str")
                         \/ FieldErr(f, "completed", "bool")
                         \/ FieldErr(f, "created_at", "str") \/ badTime,
              todo |->
                [id |-> IF FieldSet(f, "id", "num") THEN f["id"].n ELSE dst.id,
                 title |-> IF FieldSet(f, "title", "str")
                           THEN f["title"].s ELSE dst.title,
                 completed |-> IF FieldSet(f, "completed", "bool")
                               THEN f["completed"].b ELSE dst.completed,
                 created_at |-> IF FieldSet(f, "created_at", "str") /\ ~badTime
                                THEN ParseTime(f["created_at"].s)
                                ELSE dst.created_at]]

\* json.Decoder.Decode into a nil *Todo: null leaves the pointer nil, an
\* object allocates a zero Todo and fills it
DecodeTodoPtr(body) ==
    IF body.kind = "null" THEN [err |-> FALSE, nil |-> TRUE, todo |-> ZeroTodo]
    ELSE LET d == DecodeTodo(body, ZeroTodo)
         IN  [err |-> d.err, nil |-> body.kind # "object", todo |-> d.todo]

\* ------------------------------------------------------- response bodies
NoBody == [kind |-> "none", todo |-> ZeroTodo, todos |-> <<>>]
TextBody == [kind |-> "text", todo |-> ZeroTodo, todos |-> <<>>]
EncodeTodo(todo) == [kind |-> "todo", todo |-> todo, todos |-> <<>>]
\* a nil slice (no rows) encodes as JSON null
EncodeTodos(todos) ==
    IF todos = <<>> THEN [kind |-> "null", todo |-> ZeroTodo, todos |-> <<>>]
    ELSE [kind |-> "list", todo |-> ZeroTodo, todos |-> todos]

\* ---------------------------------------------------------- TodoSQLStore
Max(S) == CHOOSE x \in S : \A y \in S : y <= x
Min(S) == CHOOSE x \in S : \A y \in S : x <= y

RECURSIVE RowsOf(_, _)
\* rows.Next() loop: one Todo per row (rowid order, as SQLite scans the table)
RowsOf(t, ids) ==
    IF ids = {} THEN <<>>
    ELSE <<ToTodo(Min(ids), t[Min(ids)])>> \o RowsOf(t, ids \ {Min(ids)})

GetAll(t) == [todos |-> RowsOf(t, DOMAIN t), err |-> "none"]

GetByID(t, id) ==
    IF id \in DOMAIN t THEN [todo |-> ToTodo(id, t[id]), err |-> "none"]
    ELSE [todo |-> ZeroTodo, err |-> "ErrNoRows"]

\* a rowid with neither of the two rules below (max(rowid)+1 of the live rows)
NextRowidNoAutoincrement(t, s) == IF DOMAIN t = {} THEN 1 ELSE Max(DOMAIN t) + 1

\* id INTEGER PRIMARY KEY AUTOINCREMENT: one more than the largest rowid ever
NextRowid(t, s) == s + 1

\* an INSERT whose title parameter is not bound to the column
InsertTodoLosesTitle(t, s, now, title) ==
    LET id == NextRowid(t, s)
    IN  [table |-> [i \in DOMAIN t \cup {id} |->
                      IF i = id
                      THEN [title |-> "", completed |-> FALSE, created_at |-> now]
                      ELSE t[i]],
         seq |-> IF id > s THEN id ELSE s,
         id |-> id]

\* INSERT INTO todos (title) VALUES (?) with the column defaults of the schema
InsertTodo(t, s, now, title) ==
    LET id == NextRowid(t, s)
    IN  [table |-> [i \in DOMAIN t \cup {id} |->
                      IF i = id
                      THEN [title |-> title, completed |-> FALSE, created_at |-> now]
                      ELSE t[i]],
         seq |-> IF id > s THEN id ELSE s,
         id |-> id]

\* an UPDATE that also sets created_at from the Todo it is given
UpdateRewritesCreatedAt(t, todo) ==
    [i \in DOMAIN t |->
        IF i = todo.id
        THEN [title |-> todo.title, completed |-> todo.completed,
              created_at |-> todo.created_at]
        ELSE t[i]]

\* an UPDATE that inserts the row when no row matches (INSERT OR REPLACE)
UpdateUpserts(t, todo) ==
    [i \in DOMAIN t \cup {todo.id} |->
        IF i = todo.id
        THEN [title |-> todo.title, completed |-> todo.completed,
              created_at |-> IF i \in DOMAIN t THEN t[i].created_at
                             ELSE todo.created_at]
        ELSE t[i]]

\* an UPDATE that sets the title alone
UpdateTitleOnly(t, todo) ==
    [i \in DOMAIN t |->
        IF i = todo.id THEN [t[i] EXCEPT !.title = todo.title] ELSE t[i]]

\* UPDATE todos SET title = ?, completed = ? WHERE id = ?
Update(t, todo) ==
    [i \in DOMAIN t |->
        IF i = todo.id
        THEN [t[i] EXCEPT !.title = todo.title, !.completed = todo.completed]
        ELSE t[i]]

\* a DELETE without its WHERE clause
DeleteWithoutWhere(t, id) == [i \in {} |-> t[i]]

\* DELETE FROM todos WHERE id = ?
Delete(t, id) == [i \in DOMAIN t \ {id} |-> t[i]]

\* --------------------------------------------------------- HTTP handlers
\* what a handler did: the response, the store calls it made, their error
Outcome(t, id, in, status, body, calls, err) ==
    [table |-> t, id |-> id, in |-> in, status |-> status, body |-> body,
     calls |-> calls, err |-> err, decoded |-> TRUE]

\* http.Error(w, err.Error(), code)
HttpError(t, id, in, status, calls, err) ==
    Outcome(t, id, in, status, TextBody, calls, err)

\* http.Error(w, err.Error(), http.StatusBadRequest) after a failed Decode
DecodeError(t, id) ==
    [HttpError(t, id, ZeroTodo, StatusBadRequest, <<>>, "none") EXCEPT !.decoded = FALSE]

\* GET /todos/{id}: not-found answered with its own status
GetTodoNotFound404(t, id, fault) ==
    LET r == IF fault THEN [todo |-> ZeroTodo, err |-> "StorageError"]
             ELSE GetByID(t, id)
    IN  IF r.err = "ErrNoRows"
        THEN HttpError(t, id, ZeroTodo, 404, <<"GetByID">>, r.err)
        ELSE IF r.err # "none"
        THEN HttpError(t, id, ZeroTodo, StatusInternalServerError, <<"GetByID">>, r.err)
        ELSE Outcome(t, id, ZeroTodo, StatusOK, EncodeTodo(r.todo), <<"GetByID">>, "none")

\* GET /todos/{id}
GetTodo(t, id, fault) ==
    LET r == IF fault THEN [todo |-> ZeroTodo, err |-> "StorageError"]
             ELSE GetByID(t, id)
    IN  IF r.err # "none"
        THEN HttpError(t, id, ZeroTodo, StatusInternalServerError, <<"GetByID">>, r.err)
        ELSE Outcome(t, id, ZeroTodo, StatusOK, EncodeTodo(r.todo), <<"GetByID">>, "none")

\* PUT /todos/{id}
PutTodo(t, id, body, fault) ==
    LET d == DecodeTodo(body, ZeroTodo)
        todo == [d.todo EXCEPT !.id = id]
    IN  IF d.err
        THEN DecodeError(t, id)
        ELSE IF fault
        THEN HttpError(t, id, ZeroTodo, StatusInternalServerError, <<"Update">>,
                       "StorageError")
        ELSE Outcome(Update(t, todo), id, d.todo, StatusOK, EncodeTodo(todo),
                     <<"Update">>, "none")

\* DELETE /todos/{id}
DeleteTodo(t, id, fault) ==
    IF fault
    THEN HttpError(t, id, ZeroTodo, StatusInternalServerError, <<"Delete">>,
                   "StorageError")
    ELSE Outcome(Delete(t, id), id, ZeroTodo, StatusOK, NoBody, <<"Delete">>, "none")

\* the method switch taken before the id is parsed
TodoHandlerDispatchFirst(t, method, suffix, body, fault) ==
    LET a == Atoi(suffix)
    IN  IF method \notin {"GET", "PUT", "DELETE"}
        THEN HttpError(t, a.n, ZeroTodo, StatusMethodNotAllowed, <<>>, "none")
        ELSE IF a.err
        THEN HttpError(t, 0, ZeroTodo, StatusBadRequest, <<>>, "none")
        ELSE CASE method = "GET" -> GetTodo(t, a.n, fault)
               [] method = "PUT" -> PutTodo(t, a.n, body, fault)
               [] OTHER -> DeleteTodo(t, a.n, fault)

\* the handler registered on "/todos/"
TodoHandler(t, method, suffix, body, fault) ==
    LET a == Atoi(suffix)
    IN  IF a.err
        THEN HttpError(t, 0, ZeroTodo, StatusBadRequest, <<>>, "none")
        ELSE CASE method = "GET" -> GetTodo(t, a.n, fault)
               [] method = "PUT" -> PutTodo(t, a.n, body, fault)
               [] method = "DELETE" -> DeleteTodo(t, a.n, fault)
               [] OTHER -> HttpError(t, a.n, ZeroTodo, StatusMethodNotAllowed,
                                     <<>>, "none")

\* GET /todos
ListTodos(t, fault) ==
    IF fault
    THEN HttpError(t, 0, ZeroTodo, StatusInternalServerError, <<"GetAll">>,
                   "StorageError")
    ELSE Outcome(t, 0, ZeroTodo, StatusOK, EncodeTodos(GetAll(t).todos),
                 <<"GetAll">>, "none")

\* ------------------------------------------------------------- exchanges
NoStmt == [op |-> "none", id |-> 0, w |-> "-"]

\* the UPDATE or DELETE statement a handler ran to completion, if it ran one
StmtOf(w, route, method, o) ==
    IF route = "item" /\ o.status = StatusOK /\ method \in {"PUT", "DELETE"}
    THEN [op |-> method, id |-> o.id, w |-> w]
    ELSE NoStmt

\* history: the statement p that ran just before this handler's, when it is an
\* UPDATE or DELETE of the same id issued by another handler that has not
\* returned yet
After(w, route, method, o, p) ==
    IF StmtOf(w, route, method, o) # NoStmt /\ p.op # "none" /\ p.id = o.id /\ p.w # w
    THEN p.op ELSE "none"

\* no response is being written
NoExchange ==
    [route |-> "none", method |-> "none", suffix |-> <<>>, id |-> 0,
     in |-> ZeroTodo, status |-> Aborted, body |-> NoBody, calls |-> <<>>,
     err |-> "none", decoded |-> TRUE, n0 |-> 0, inserted |-> FALSE,
     stmt |-> NoStmt, after |-> "none"]

Exchange(w, route, method, suffix, o, n0, inserted, p) ==
    [route |-> route, method |-> method, suffix |-> suffix, id |-> o.id,
     in |-> o.in, status |-> o.status, body |-> o.body, calls |-> o.calls,
     err |-> o.err, decoded |-> o.decoded, n0 |-> n0, inserted |-> inserted,
     stmt |-> StmtOf(w, route, method, o), after |-> After(w, route, method, o, p)]

Count(t) == Len(GetAll(t).todos)
NoLocals == [title |-> "", id |-> 0, n0 |-> 0]
\* a handler's step is observed once the exchange before it is written out ...
Ready(w) == pc[w] = "idle" /\ last.route = "none"
\* ... or while another handler's UPDATE or DELETE of the same id is in flight
Racing(w, method, suffix) ==
    /\ pc[w] = "idle"
    /\ last.stmt.op # "none" /\ last.stmt.w # w
    /\ method \in {"PUT", "DELETE"}
    /\ ~Atoi(suffix).err /\ Atoi(suffix).n = last.stmt.id

\* ---------------------------------------------------------------- actions
Init ==
    /\ table = <<>>
    /\ seq = 0
    /\ issued = <<>>
    /\ pc = [w \in Workers |-> "idle"]
    /\ loc = [w \in Workers |-> NoLocals]
    /\ last = NoExchange

\* one client: a single handler goroutine runs at a time
SeqInit ==
    /\ table = <<>>
    /\ seq = 0
    /\ issued = <<>>
    /\ \E h \in Workers : pc = [w \in Workers |-> IF w = h THEN "idle" ELSE "off"]
    /\ loc = [w \in Workers |-> NoLocals]
    /\ last = NoExchange

\* the response has been written and the handler has returned
Flush ==
    /\ last.route # "none"
    /\ last' = NoExchange
    /\ UNCHANGED <<table, seq, issued, pc, loc>>

\* GET /todos
HandleListTodos(w) ==
    /\ Ready(w)
    /\ \E fault \in BOOLEAN :
         last' = Exchange(w, "todos", "GET", <<>>, ListTodos(table, fault),
                          Count(table), FALSE, last.stmt)
    /\ UNCHANGED <<table, seq, issued, pc, loc>>

\* /todos with a method other than GET and POST
HandleTodosOther(w) ==
    /\ Ready(w)
    /\ \E method \in Methods \ {"GET", "POST"} :
         last' = Exchange(w, "todos", method, <<>>,
                          HttpError(table, 0, ZeroTodo, StatusMethodNotAllowed,
                                    <<>>, "none"),
                          Count(table), FALSE, last.stmt)
    /\ UNCHANGED <<table, seq, issued, pc, loc>>

\* POST /todos whose body does not decode: 400
HandleCreateBadBody(w) ==
    /\ Ready(w)
    /\ \E body \in Bodies :
         /\ DecodeTodoPtr(body).err
         /\ last' = Exchange(w, "todos", "POST", <<>>, DecodeError(table, 0),
                             Count(table), FALSE, last.stmt)
    /\ UNCHANGED <<table, seq, issued, pc, loc>>

\* POST /todos whose body decodes to a nil *Todo: todo.Title dereferences nil
HandleCreateNilTodo(w) ==
    /\ Ready(w)
    /\ \E body \in Bodies :
         /\ ~DecodeTodoPtr(body).err
         /\ DecodeTodoPtr(body).nil
         /\ last' = Exchange(w, "todos", "POST", <<>>,
                             Outcome(table, 0, ZeroTodo, Aborted, NoBody, <<>>, "none"),
                             Count(table), FALSE, last.stmt)
    /\ UNCHANGED <<table, seq, issued, pc, loc>>

\* POST /todos, Create: the INSERT fails
HandleCreateInsertFails(w) ==
    /\ Ready(w)
    /\ \E body \in Bodies :
         LET d == DecodeTodoPtr(body)
         IN  /\ ~d.err /\ ~d.nil
             /\ last' = Exchange(w, "todos", "POST", <<>>,
                                 HttpError(table, 0, d.todo, StatusInternalServerError,
                                           <<"Create">>, "StorageError"),
                                 Count(table), FALSE, last.stmt)
    /\ UNCHANGED <<table, seq, issued, pc, loc>>

\* POST /todos, Create: INSERT and LastInsertId
HandleCreateInsert(w) ==
    /\ Ready(w)
    /\ seq < MaxId
    /\ \E body \in Bodies, now \in Timestamps :
         LET d == DecodeTodoPtr(body)
             r == InsertTodo(table, seq, now, d.todo.title)
         IN  /\ ~d.err /\ ~d.nil
             /\ table' = r.table
             /\ seq' = r.seq
             /\ issued' = Append(issued, r.id)
             /\ pc' = [pc EXCEPT ![w] = "reread"]
             /\ loc' = [loc EXCEPT ![w] = [title |-> d.todo.title, id |-> r.id,
                                           n0 |-> Count(table)]]
             /\ last' = NoExchange

\* POST /todos, Create: GetByID(LastInsertId), then the response
HandleCreateReturn(w) ==
    /\ pc[w] = "reread"
    /\ last.route = "none"
    /\ \E fault \in BOOLEAN :
         LET r == IF fault THEN [todo |-> ZeroTodo, err |-> "StorageError"]
                  ELSE GetByID(table, loc[w].id)
             in == [ZeroTodo EXCEPT !.title = loc[w].title]
             o == IF r.err # "none"
                  THEN HttpError(table, loc[w].id, in, StatusInternalServerError,
                                 <<"Create">>, r.err)
                  ELSE Outcome(table, loc[w].id, in, StatusOK, EncodeTodo(r.todo),
                               <<"Create">>, "none")
         IN  last' = Exchange(w, "todos", "POST", <<>>, o, loc[w].n0, TRUE,
                              last.stmt)
    /\ pc' = [pc EXCEPT ![w] = "idle"]
    /\ loc' = [loc EXCEPT ![w] = NoLocals]
    /\ UNCHANGED <<table, seq, issued>>

\* what a request to /todos/ carries: only PUT sends a body
BodiesOf(method) == IF method = "PUT" THEN Bodies ELSE {JObject(NoFields)}
\* the statement a handler issues may fail in the engine
FaultsOf(method) == IF method \in {"GET", "PUT", "DELETE"} THEN BOOLEAN ELSE {FALSE}

\* any request under /todos/
HandleTodo(w) ==
    /\ pc[w] = "idle"
    /\ last.route = "none" \/ (last.stmt.op # "none" /\ last.stmt.w # w)
    /\ \E method \in Methods, suffix \in Suffixes :
         \E body \in BodiesOf(method), fault \in FaultsOf(method) :
           LET o == TodoHandler(table, method, suffix, body, fault)
           IN  /\ Ready(w) \/ Racing(w, method, suffix)
               /\ table' = o.table
               /\ last' = Exchange(w, "item", method, suffix, o, Count(table), FALSE,
                                   last.stmt)
    /\ UNCHANGED <<seq, issued, pc, loc>>

Next ==
    \/ Flush
    \/ \E w \in Workers :
         \/ HandleListTodos(w)
         \/ HandleTodosOther(w)
         \/ HandleCreateBadBody(w)
         \/ HandleCreateNilTodo(w)
         \/ HandleCreateInsertFails(w)
         \/ HandleCreateInsert(w)
         \/ HandleCreateReturn(w)
         \/ HandleTodo(w)

Spec == Init /\ [][Next]_vars
SeqSpec == SeqInit /\ [][Next]_vars

\* ------------------------------------------------------------ properties
Range(f) == {f[i] : i \in DOMAIN f}

\* POST /todos whose Create returned a Todo without error
CreateReturned(x) ==
    x.route = "todos" /\ x.method = "POST" /\ x.inserted /\ x.err = "none"

\* DELETE /todos/{id} whose Delete returned without error
DeleteReturned(x) ==
    x.route = "item" /\ x.method = "DELETE" /\ x.calls = <<"Delete">> /\ x.err = "none"

\* PUT /todos/{id} whose Update returned without error
UpdateReturned(x) ==
    x.route = "item" /\ x.method = "PUT" /\ x.calls = <<"Update">> /\ x.err = "none"

\* an optional sign followed by one or more decimal digits
IsIntegerLiteral(s) ==
    \E k \in 0..1 :
        /\ Len(s) > k
        /\ k = 1 => s[1] \in {"+", "-"}
        /\ \A i \in (k + 1)..Len(s) :
             s[i] \in {"0", "1", "2", "3", "4", "5", "6", "7", "8", "9"}

\* C1: with one client, once Create(T) has returned a Todo without error,
\* GetByID(returned.id) returns a Todo with that id, title T and completed false
C1_CreateThenGetByID ==
    CreateReturned(last) =>
        LET r == GetByID(table, last.body.todo.id)
        IN  /\ r.err = "none"
            /\ r.todo.id = last.body.todo.id
            /\ r.todo.title = last.in.title
            /\ r.todo.completed = FALSE

\* Create("") has returned
C1_Witness ==
    /\ CreateReturned(last) /\ last.in.title = ""
    /\ last.status = StatusOK /\ last.body.todo.id = seq

\* C2 as claimed: GetAll has one more Todo after every Create that returned
\* without error and one fewer after every Delete that returned without error
C2_CountAfterCreateAndDelete ==
    /\ CreateReturned(last) => Count(table) = last.n0 + 1
    /\ DeleteReturned(last) => Count(table) = last.n0 - 1

\* C2 amended: one more Todo after a Create that returned without error; after
\* a Delete that returned without error, one fewer when a row had that id and
\* the same number when none had
C2_CountAmended ==
    [][ /\ CreateReturned(last') => Count(table') = last'.n0 + 1
        /\ (DeleteReturned(last') /\ last' # last) =>
              Count(table') = Count(table) - (IF last'.id \in DOMAIN table THEN 1 ELSE 0)
      ]_vars

\* a Delete of an id no row has returned without error, the table holding rows
C2_Witness ==
    /\ DeleteReturned(last) /\ last.status = StatusOK
    /\ Count(table) = last.n0 /\ Count(table) > 0

\* C3: the ids LastInsertId hands out are strictly increasing in insertion
\* order (so pairwise distinct, and never one handed out before, deleted or
\* not); every row's id and every id a Create returns is one of them
C3_IdsNeverReused ==
    /\ \A i, j \in DOMAIN issued : i < j => issued[i] < issued[j]
    /\ DOMAIN table \subseteq Range(issued)
    /\ CreateReturned(last) => last.body.todo.id \in Range(issued)
    /\ \A w \in Workers : pc[w] = "reread" => loc[w].id \in Range(issued)

\* a Create was given id 2 by an INSERT into a table emptied by deleting row 1,
\* the row that held the highest id
C3_Witness ==
    /\ CreateReturned(last) /\ last.body.todo.id = 2
    /\ last.n0 = 0 /\ issued = <<1, 2>>

\* C4: an Update that returns without error for an id that has a row sets that
\* row's title and completed to the Todo's, keeps its id and created_at, and
\* leaves every other row as it was
C4_UpdateWritesTitleAndCompleted ==
    [][ (UpdateReturned(last') /\ last' # last /\ last'.id \in DOMAIN table) =>
           LET id == last'.id
               r == GetByID(table', id)
           IN  /\ r.err = "none"
               /\ r.todo = [id |-> id, title |-> last'.in.title,
                            completed |-> last'.in.completed,
                            created_at |-> table[id].created_at]
               /\ DOMAIN table' = DOMAIN table
               /\ \A j \in DOMAIN table \ {id} : table'[j] = table[j]
      ]_vars

\* a PUT whose body carried another id and another created_at updated one of
\* two rows
C4_Witness ==
    /\ UpdateReturned(last) /\ last.id \in DOMAIN table
    /\ last.in.id # last.id
    /\ last.in.created_at # table[last.id].created_at
    /\ Cardinality(DOMAIN table) = 2

\* C5: once Delete(id) has returned without error, GetByID(id) fails with the
\* no-rows error and GET /todos/{id} answers 500
C5_GetAfterDelete ==
    DeleteReturned(last) =>
        /\ GetByID(table, last.id).err = "ErrNoRows"
        /\ LET o == TodoHandler(table, "GET", last.suffix, JObject(NoFields), FALSE)
           IN  /\ o.status = StatusInternalServerError
               /\ o.err = "ErrNoRows"
               /\ o.body = TextBody

\* a Delete removed a row
C5_Witness ==
    /\ DeleteReturned(last) /\ Count(table) = last.n0 - 1

\* C6: an Update or Delete of an id no row has returns without error and
\* leaves the table as it was; PUT answers 200 with the decoded Todo carrying
\* the path id, DELETE answers 200 with an empty body
C6_NoRowMatched ==
    [][ ( /\ last' # last /\ last'.route = "item"
          /\ last'.calls \in {<<"Update">>, <<"Delete">>}
          /\ last'.err # "StorageError"
          /\ last'.id \notin DOMAIN table ) =>
           /\ last'.err = "none"
           /\ table' = table
           /\ last'.status = StatusOK
           /\ last'.method = "PUT" =>
                 /\ last'.body = EncodeTodo([last'.in EXCEPT !.id = last'.id])
                 /\ last'.body.todo.id = Atoi(last'.suffix).n
           /\ last'.method = "DELETE" => last'.body = NoBody
      ]_vars

\* a PUT for an id no row has, its body carrying another id, was answered 200
C6_Witness ==
    /\ UpdateReturned(last) /\ last.status = StatusOK
    /\ last.id \notin DOMAIN table /\ last.in.id # last.id
    /\ Count(table) > 0

\* C7: when an UPDATE or DELETE runs right after another handler's UPDATE or
\* DELETE of the same id, the row is what the later statement wrote: after an
\* UPDATE of a row, title and completed are both the later call's; after a
\* DELETE, or an UPDATE that follows a DELETE, the id has no row
C7_LastWriteWins ==
    last.after # "none" =>
        IF last.method = "PUT" /\ last.after = "PUT"
        THEN last.id \in DOMAIN table =>
                /\ table[last.id].title = last.in.title
                /\ table[last.id].completed = last.in.completed
        ELSE last.id \notin DOMAIN table

\* two handlers' UPDATEs of the same row ran back to back
C7_Witness ==
    /\ last.after = "PUT" /\ last.method = "PUT"
    /\ last.id \in DOMAIN table /\ last.in.completed

\* C8 as claimed: a POST /todos whose body decodes without error makes exactly
\* one Create call with the decoded title and, the store not failing, is
\* answered 200 with the stored Todo; only a decode failure is answered 400
C8_PostDecodedBodyCreates ==
    (last.route = "todos" /\ last.method = "POST") =>
        /\ last.status = StatusBadRequest => ~last.decoded
        /\ last.decoded =>
              /\ last.calls = <<"Create">>
              /\ last.err = "none" =>
                    /\ last.status = StatusOK
                    /\ last.body = EncodeTodo(GetByID(table, last.id).todo)
                    /\ last.body.todo.title = last.in.title

\* C9: a request under /todos/ whose suffix is no integer is answered 400
\* without a store call, whatever its method; 405 is answered only when the
\* suffix is an integer and the method is none of GET, PUT, DELETE
C9_BadIdBeforeMethod ==
    last.route = "item" =>
        /\ ~IsIntegerLiteral(last.suffix) =>
              last.status = StatusBadRequest /\ last.calls = <<>>
        /\ last.status = StatusMethodNotAllowed =>
              /\ IsIntegerLiteral(last.suffix)
              /\ last.method \notin {"GET", "PUT", "DELETE"}

\* an unsupported method on the empty suffix was answered 400
C9_Witness ==
    /\ last.route = "item" /\ last.suffix = <<>> /\ last.method = "POST"
    /\ last.status = StatusBadRequest

\* C10 as claimed: a Create(T) whose INSERT succeeded returns, unless the
\* engine fails its SELECT, without error the row it inserted: the id of the
\* INSERT, title T and completed false
C10_CreateReturnsInsertedRow ==
    (last.route = "todos" /\ last.method = "POST" /\ last.inserted
        /\ last.err # "StorageError") =>
        /\ last.err = "none"
        /\ last.body.todo.id = last.id
        /\ last.body.todo.title = last.in.title
        /\ last.body.todo.completed = FALSE

====
